---- MODULE Spec2Model ----
(***************************************************************************)
(* Model of the Accelerator pipeline construct                             *)
(* (packages/@aws-accelerator/accelerator/lib/pipeline.ts).                *)
(*                                                                         *)
(* The constructor of AcceleratorPipeline builds the stage graph one       *)
(* addStage call at a time; createToolkitStage is the action factory.      *)
(* The pipeline service that later runs the graph is not part of the       *)
(* source file; its run-order semantics are modelled from the design       *)
(* document.                                                               *)
(***************************************************************************)
EXTENDS Integers, Sequences, FiniteSets, TLC

VARIABLES props, pc, pipelineName, pipelineAccountEnvVariables, toolkitProject,
          artifacts, stages, started, succeeded, failed, approver,
          descriptor, built

vars == <<props, pc, pipelineName, pipelineAccountEnvVariables, toolkitProject,
          artifacts, stages, started, succeeded, failed, approver,
          descriptor, built>>

(***************************************************************************)
(* Optional values: an absent (undefined) property is the empty tuple, a   *)
(* supplied value v is the one-element tuple <<v>>.                        *)
(***************************************************************************)
Undefined == <<>>

Some(v) == <<v>>

\* JavaScript truthiness of an optional string: undefined and '' are falsy.
Truthy(x) == x # Undefined /\ x[1] # ""

\* Template-literal interpolation `${x}` of an optional string.
Interpolate(x) == IF x = Undefined THEN "undefined" ELSE x[1]

\* x ?? d
Coalesce(x, d) == IF x = Undefined THEN d ELSE x[1]

(***************************************************************************)
(* Bounds of the model.                                                    *)
(***************************************************************************)
MaxRunOrder == 2

(***************************************************************************)
(* Values of the enumerations imported from ./toolkit and                  *)
(* ./accelerator-stage.                                                    *)
(***************************************************************************)
ToolkitBOOTSTRAP == "bootstrap"

ToolkitDIFF == "diff"

StagePREPARE == "prepare"

StageACCOUNTS == "accounts"

StageLOGGING == "logging"

StageORGANIZATIONS == "organizations"

StageSECURITY_AUDIT == "security-audit"

StageNETWORK_PREP == "network-prep"

StageSECURITY == "security"

StageOPERATIONS == "operations"

StageNETWORK_VPC == "network-vpc"

StageNETWORK_ASSOCIATIONS == "network-associations"

(***************************************************************************)
(* Configurations (AcceleratorPipelineProps) the constructor is run on.    *)
(***************************************************************************)
AcceleratorPipelineProps ==
  [ sourceRepositoryName      : {"accelerator-source"},
    sourceBranchName          : {"main", "dev"},
    enableApprovalStage       : BOOLEAN,
    qualifier                 : {Undefined, Some("lza")},
    managementAccountId       : {Undefined, Some(""), Some("111111111111")},
    managementAccountRoleName : {Undefined, Some(""), Some("AcceleratorRole")} ]

(***************************************************************************)
(* Descriptors the action factory is exercised on.                         *)
(***************************************************************************)
ToolkitStageProps ==
  [ actionName : {"Diff", "Logging"},
    command    : {"bootstrap", "diff", "deploy", "synth"},
    stage      : {Undefined, Some(""), Some(StageLOGGING), Some(StageNETWORK_VPC)},
    runOrder   : {Undefined} \cup {Some(n) : n \in 1..MaxRunOrder} ]

EmptyEnv == [k \in {} |-> ""]

\* Variant of cdkOptions that recognises only the bootstrap command.
cdkOptions_BootstrapOnly(p) ==
  IF p.command = ToolkitBOOTSTRAP
    THEN p.command
    ELSE p.command \o " --stage " \o Interpolate(p.stage)

(***************************************************************************)
(* createToolkitStage: the derived command string.                         *)
(***************************************************************************)
cdkOptions(p) ==
  IF p.command = ToolkitBOOTSTRAP \/ p.command = ToolkitDIFF
    THEN p.command
    ELSE p.command \o " --stage " \o Interpolate(p.stage)

\* Variant of environmentVariables that tests the tag against undefined
\* instead of testing its truthiness.
environmentVariables_WhenDefined(p) ==
  IF p.stage # Undefined
    THEN ("CDK_OPTIONS" :> cdkOptions(p)) @@
         ("ACCELERATOR_STAGE" :> Coalesce(p.stage, ""))
    ELSE ("CDK_OPTIONS" :> cdkOptions(p))

(***************************************************************************)
(* createToolkitStage: the environment variables of the action.            *)
(***************************************************************************)
environmentVariables(p) ==
  IF Truthy(p.stage)
    THEN ("CDK_OPTIONS" :> cdkOptions(p)) @@
         ("ACCELERATOR_STAGE" :> Coalesce(p.stage, ""))
    ELSE ("CDK_OPTIONS" :> cdkOptions(p))

(***************************************************************************)
(* createToolkitStage: the CodeBuildAction that is returned.               *)
(***************************************************************************)
createToolkitStage(p) ==
  [ kind                 |-> "CodeBuild",
    actionName           |-> p.actionName,
    runOrder             |-> p.runOrder,
    project              |-> "ToolkitProject",
    input                |-> Some("Build"),
    extraInputs          |-> {"Config"},
    outputs              |-> {},
    environmentVariables |-> environmentVariables(p) ]

Init ==
  /\ props \in AcceleratorPipelineProps
  /\ pc = "EnvVariables"
  /\ pipelineName = Undefined
  /\ pipelineAccountEnvVariables = Undefined
  /\ toolkitProject = Undefined
  /\ artifacts = {}
  /\ stages = <<>>
  /\ started = {}
  /\ succeeded = {}
  /\ failed = {}
  /\ approver = "none"
  /\ descriptor = Undefined
  /\ built = Undefined

\* Lines 55-68: the management-account environment variables.
ResolveAccountEnv ==
  /\ pc = "EnvVariables"
  /\ pipelineAccountEnvVariables' =
       IF Truthy(props.managementAccountId) /\ Truthy(props.managementAccountRoleName)
         THEN Some(("MANAGEMENT_ACCOUNT_ID" :> props.managementAccountId[1]) @@
                   ("MANAGEMENT_ACCOUNT_ROLE_NAME" :> props.managementAccountRoleName[1]))
         ELSE Undefined
  /\ pc' = "Pipeline"
  /\ UNCHANGED <<props, pipelineName, toolkitProject, artifacts, stages,
                 started, succeeded, failed, approver, descriptor, built>>

\* Lines 106-110: the pipeline resource and its name.
CreatePipeline ==
  /\ pc = "Pipeline"
  /\ pipelineName' =
       Some(IF Truthy(props.qualifier)
              THEN props.qualifier[1] \o "-pipeline"
              ELSE "AWSAccelerator-Pipeline")
  /\ pc' = "Source"
  /\ UNCHANGED <<props, pipelineAccountEnvVariables, toolkitProject, artifacts,
                 stages, started, succeeded, failed, approver, descriptor, built>>

\* Lines 128-146: the Source stage and its two CodeCommit source actions.
SourceStage(q) ==
  [ stageName |-> "Source",
    actions   |-> <<
      [ kind                 |-> "CodeCommitSource",
        actionName           |-> "Source",
        runOrder             |-> Undefined,
        project              |-> q.sourceRepositoryName,
        input                |-> Undefined,
        extraInputs          |-> {},
        outputs              |-> {"Source"},
        environmentVariables |-> ("branch" :> q.sourceBranchName) ],
      [ kind                 |-> "CodeCommitSource",
        actionName           |-> "Configuration",
        runOrder             |-> Undefined,
        project              |-> Coalesce(q.qualifier, "aws-accelerator") \o "-config",
        input                |-> Undefined,
        extraInputs          |-> {},
        outputs              |-> {"Config"},
        environmentVariables |-> ("branch" :> "main") ] >> ]

\* Variant of BuildStage whose action declares no output artifact.
BuildStage_NoOutputs(q) ==
  [ stageName |-> "Build",
    actions   |-> <<
      [ kind                 |-> "CodeBuild",
        actionName           |-> "Build",
        runOrder             |-> Undefined,
        project              |-> IF Truthy(q.qualifier)
                                   THEN q.qualifier[1] \o "-build-project"
                                   ELSE "AWSAccelerator-BuildProject",
        input                |-> Some("Source"),
        extraInputs          |-> {"Config"},
        outputs              |-> {},
        environmentVariables |-> EmptyEnv ] >> ]

\* Lines 191-203: the Build stage.
BuildStage(q) ==
  [ stageName |-> "Build",
    actions   |-> <<
      [ kind                 |-> "CodeBuild",
        actionName           |-> "Build",
        runOrder             |-> Undefined,
        project              |-> IF Truthy(q.qualifier)
                                   THEN q.qualifier[1] \o "-build-project"
                                   ELSE "AWSAccelerator-BuildProject",
        input                |-> Some("Source"),
        extraInputs          |-> {"Config"},
        outputs              |-> {"Build"},
        environmentVariables |-> EmptyEnv ] >> ]

\* Lines 262-265.
PrepareDescriptors ==
  << [actionName |-> "Prepare", command |-> "deploy",
      stage |-> Some(StagePREPARE), runOrder |-> Undefined] >>

\* Lines 267-272.
AccountsDescriptors ==
  << [actionName |-> "Accounts", command |-> "deploy",
      stage |-> Some(StageACCOUNTS), runOrder |-> Undefined] >>

\* Lines 274-277.
BootstrapDescriptors ==
  << [actionName |-> "Bootstrap", command |-> "bootstrap",
      stage |-> Undefined, runOrder |-> Undefined] >>

\* Line 283.
ReviewDescriptors ==
  << [actionName |-> "Diff", command |-> "diff",
      stage |-> Undefined, runOrder |-> Some(1)] >>

\* Lines 301-304.
LoggingDescriptors ==
  << [actionName |-> "Logging", command |-> "deploy",
      stage |-> Some(StageLOGGING), runOrder |-> Undefined] >>

\* Lines 306-315.
OrganizationDescriptors ==
  << [actionName |-> "Organizations", command |-> "deploy",
      stage |-> Some(StageORGANIZATIONS), runOrder |-> Undefined] >>

\* Lines 317-326.
SecurityAuditDescriptors ==
  << [actionName |-> "SecurityAudit", command |-> "deploy",
      stage |-> Some(StageSECURITY_AUDIT), runOrder |-> Undefined] >>

\* Variant of DeployDescriptors with Network_VPCs in the first wave.
DeployDescriptors_VPCsInFirstWave ==
  << [actionName |-> "Network_Prepare", command |-> "deploy",
      stage |-> Some(StageNETWORK_PREP), runOrder |-> Some(1)],
     [actionName |-> "Security", command |-> "deploy",
      stage |-> Some(StageSECURITY), runOrder |-> Some(1)],
     [actionName |-> "Operations", command |-> "deploy",
      stage |-> Some(StageOPERATIONS), runOrder |-> Some(1)],
     [actionName |-> "Network_VPCs", command |-> "deploy",
      stage |-> Some(StageNETWORK_VPC), runOrder |-> Some(1)],
     [actionName |-> "Network_Associations", command |-> "deploy",
      stage |-> Some(StageNETWORK_ASSOCIATIONS), runOrder |-> Some(3)] >>

\* Lines 333-367.
DeployDescriptors ==
  << [actionName |-> "Network_Prepare", command |-> "deploy",
      stage |-> Some(StageNETWORK_PREP), runOrder |-> Some(1)],
     [actionName |-> "Security", command |-> "deploy",
      stage |-> Some(StageSECURITY), runOrder |-> Some(1)],
     [actionName |-> "Operations", command |-> "deploy",
      stage |-> Some(StageOPERATIONS), runOrder |-> Some(1)],
     [actionName |-> "Network_VPCs", command |-> "deploy",
      stage |-> Some(StageNETWORK_VPC), runOrder |-> Some(2)],
     [actionName |-> "Network_Associations", command |-> "deploy",
      stage |-> Some(StageNETWORK_ASSOCIATIONS), runOrder |-> Some(3)] >>

\* The toolkit actions of a stage: createToolkitStage applied to each descriptor.
ToolkitActions(ds) == [i \in 1..Len(ds) |-> createToolkitStage(ds[i])]

\* Variant of ManualApprovalAction without its run-order.
ManualApprovalAction_NoRunOrder ==
  [ kind                 |-> "ManualApproval",
    actionName           |-> "Approve",
    runOrder             |-> Undefined,
    project              |-> "",
    input                |-> Undefined,
    extraInputs          |-> {},
    outputs              |-> {},
    environmentVariables |-> EmptyEnv ]

\* Lines 284-288: the manual approval action of the Review stage.
ManualApprovalAction ==
  [ kind                 |-> "ManualApproval",
    actionName           |-> "Approve",
    runOrder             |-> Some(2),
    project              |-> "",
    input                |-> Undefined,
    extraInputs          |-> {},
    outputs              |-> {},
    environmentVariables |-> EmptyEnv ]

PrepareStage == [stageName |-> "Prepare", actions |-> ToolkitActions(PrepareDescriptors)]

AccountsStage == [stageName |-> "Accounts", actions |-> ToolkitActions(AccountsDescriptors)]

BootstrapStage == [stageName |-> "Bootstrap", actions |-> ToolkitActions(BootstrapDescriptors)]

\* Variant of ReviewStage without the manual approval.
ReviewStage_NoApproval ==
  [stageName |-> "Review", actions |-> ToolkitActions(ReviewDescriptors)]

ReviewStage ==
  [stageName |-> "Review",
   actions   |-> ToolkitActions(ReviewDescriptors) \o <<ManualApprovalAction>>]

LoggingStage == [stageName |-> "Logging", actions |-> ToolkitActions(LoggingDescriptors)]

OrganizationStage ==
  [stageName |-> "Organization", actions |-> ToolkitActions(OrganizationDescriptors)]

SecurityAuditStage ==
  [stageName |-> "SecurityAudit", actions |-> ToolkitActions(SecurityAuditDescriptors)]

\* Variant of DeployStage that leaves out the last descriptor.
DeployStage_WithoutAssociations ==
  [stageName |-> "Deploy",
   actions   |-> ToolkitActions(SubSeq(DeployDescriptors, 1, 4))]

DeployStage == [stageName |-> "Deploy", actions |-> ToolkitActions(DeployDescriptors)]

\* Every descriptor the constructor hands to createToolkitStage.
StaticDescriptors ==
  PrepareDescriptors \o AccountsDescriptors \o BootstrapDescriptors \o
  ReviewDescriptors \o LoggingDescriptors \o OrganizationDescriptors \o
  SecurityAuditDescriptors \o DeployDescriptors

\* pipeline.addStage: the stage is appended to the pipeline's stage list.
addStage(st, next) ==
  /\ stages' = Append(stages, st)
  /\ pc' = next
  /\ UNCHANGED <<props, pipelineName, pipelineAccountEnvVariables, toolkitProject,
                 started, succeeded, failed, approver, descriptor, built>>

\* Lines 125-146.
AddSourceStage ==
  /\ pc = "Source"
  /\ artifacts' = artifacts \cup {"Source", "Config"}
  /\ addStage(SourceStage(props), "Build")

\* Lines 189-203.
AddBuildStage ==
  /\ pc = "Build"
  /\ artifacts' = artifacts \cup {"Build"}
  /\ addStage(BuildStage(props), "ToolkitProject")

\* Lines 213-254: the toolkit project; the account variables are spread
\* into its environment (spreading undefined adds nothing).
CreateToolkitProject ==
  /\ pc = "ToolkitProject"
  /\ toolkitProject' =
       Some([ projectName |-> IF Truthy(props.qualifier)
                                THEN props.qualifier[1] \o "-toolkit-project"
                                ELSE "AWSAccelerator-ToolkitProject",
              environmentVariables |->
                IF pipelineAccountEnvVariables = Undefined
                  THEN ("NODE_OPTIONS" :> "--max_old_space_size=4096") @@
                       ("CDK_NEW_BOOTSTRAP" :> "1")
                  ELSE pipelineAccountEnvVariables[1] @@
                       ("NODE_OPTIONS" :> "--max_old_space_size=4096") @@
                       ("CDK_NEW_BOOTSTRAP" :> "1") ])
  /\ pc' = "Prepare"
  /\ UNCHANGED <<props, pipelineName, pipelineAccountEnvVariables, artifacts,
                 stages, started, succeeded, failed, approver, descriptor, built>>

AddPrepareStage ==
  /\ pc = "Prepare"
  /\ addStage(PrepareStage, "Accounts")
  /\ UNCHANGED artifacts

AddAccountsStage ==
  /\ pc = "Accounts"
  /\ addStage(AccountsStage, "Bootstrap")
  /\ UNCHANGED artifacts

AddBootstrapStage ==
  /\ pc = "Bootstrap"
  /\ addStage(BootstrapStage, "Review")
  /\ UNCHANGED artifacts

\* Variant of AddReviewStage that ignores enableApprovalStage.
AddReviewStage_Unconditional ==
  /\ pc = "Review"
  /\ addStage(ReviewStage, "Logging")
  /\ UNCHANGED artifacts

\* Lines 279-291: the Review stage is added only when approval is enabled.
AddReviewStage ==
  /\ pc = "Review"
  /\ IF props.enableApprovalStage
       THEN addStage(ReviewStage, "Logging")
       ELSE /\ pc' = "Logging"
            /\ UNCHANGED <<props, pipelineName, pipelineAccountEnvVariables,
                           toolkitProject, stages, started, succeeded, failed,
                           approver, descriptor, built>>
  /\ UNCHANGED artifacts

AddLoggingStage ==
  /\ pc = "Logging"
  /\ addStage(LoggingStage, "Organization")
  /\ UNCHANGED artifacts

AddOrganizationStage ==
  /\ pc = "Organization"
  /\ addStage(OrganizationStage, "SecurityAudit")
  /\ UNCHANGED artifacts

AddSecurityAuditStage ==
  /\ pc = "SecurityAudit"
  /\ addStage(SecurityAuditStage, "Deploy")
  /\ UNCHANGED artifacts

AddDeployStage ==
  /\ pc = "Deploy"
  /\ addStage(DeployStage, "done")
  /\ UNCHANGED artifacts

(***************************************************************************)
(* Execution of the assembled pipeline by the pipeline service.  An action *)
(* is identified by its position <<stage index, action index>>.            *)
(***************************************************************************)
DefaultRunOrder == 1

Positions ==
  UNION { {<<s, a>> : a \in 1..Len(stages[s].actions)} : s \in 1..Len(stages) }

ActionAt(pos) == stages[pos[1]].actions[pos[2]]

RunOrderOf(pos) == Coalesce(ActionAt(pos).runOrder, DefaultRunOrder)

\* The actions that must have succeeded before the action at pos may start.
Prerequisites(pos) ==
  { q \in Positions : \/ q[1] < pos[1]
                      \/ q[1] = pos[1] /\ RunOrderOf(q) < RunOrderOf(pos) }

Running == started \ (succeeded \cup failed)

StartAction(pos) ==
  /\ pc = "done"
  /\ pos \notin started
  /\ failed = {}
  /\ Prerequisites(pos) \subseteq succeeded
  /\ started' = started \cup {pos}
  /\ UNCHANGED <<props, pc, pipelineName, pipelineAccountEnvVariables,
                 toolkitProject, artifacts, stages, succeeded, failed, approver,
                 descriptor, built>>

ActionSucceeds(pos) ==
  /\ pos \in Running
  /\ ActionAt(pos).kind # "ManualApproval"
  /\ succeeded' = succeeded \cup {pos}
  /\ UNCHANGED <<props, pc, pipelineName, pipelineAccountEnvVariables,
                 toolkitProject, artifacts, stages, started, failed, approver,
                 descriptor, built>>

ActionFails(pos) ==
  /\ pos \in Running
  /\ ActionAt(pos).kind # "ManualApproval"
  /\ failed' = failed \cup {pos}
  /\ UNCHANGED <<props, pc, pipelineName, pipelineAccountEnvVariables,
                 toolkitProject, artifacts, stages, started, succeeded, approver,
                 descriptor, built>>

\* A manual approval completes only when an approver approves or rejects it.
ApproverActs(pos, decision) ==
  /\ pos \in Running
  /\ ActionAt(pos).kind = "ManualApproval"
  /\ approver' = decision
  /\ IF decision = "approved"
       THEN succeeded' = succeeded \cup {pos} /\ UNCHANGED failed
       ELSE failed' = failed \cup {pos} /\ UNCHANGED succeeded
  /\ UNCHANGED <<props, pc, pipelineName, pipelineAccountEnvVariables,
                 toolkitProject, artifacts, stages, started, descriptor, built>>

Next ==
  \/ ResolveAccountEnv
  \/ CreatePipeline
  \/ AddSourceStage
  \/ AddBuildStage
  \/ CreateToolkitProject
  \/ AddPrepareStage
  \/ AddAccountsStage
  \/ AddBootstrapStage
  \/ AddReviewStage
  \/ AddLoggingStage
  \/ AddOrganizationStage
  \/ AddSecurityAuditStage
  \/ AddDeployStage
  \/ \E pos \in Positions : StartAction(pos)
  \/ \E pos \in Positions : ActionSucceeds(pos)
  \/ \E pos \in Positions : ActionFails(pos)
  \/ \E pos \in Positions : \E decision \in {"approved", "rejected"} :
       ApproverActs(pos, decision)

Spec == Init /\ [][Next]_vars

(***************************************************************************)
(* The action factory on its own: createToolkitStage applied to an         *)
(* arbitrary descriptor.                                                   *)
(***************************************************************************)
FactoryInit ==
  /\ props = [ sourceRepositoryName      |-> "accelerator-source",
               sourceBranchName          |-> "main",
               enableApprovalStage       |-> TRUE,
               qualifier                 |-> Undefined,
               managementAccountId       |-> Undefined,
               managementAccountRoleName |-> Undefined ]
  /\ pc = "createToolkitStage"
  /\ pipelineName = Some("AWSAccelerator-Pipeline")
  /\ pipelineAccountEnvVariables = Undefined
  /\ toolkitProject = Undefined
  /\ artifacts = {"Source", "Config", "Build"}
  /\ stages = <<>>
  /\ started = {}
  /\ succeeded = {}
  /\ failed = {}
  /\ approver = "none"
  /\ descriptor \in {Some(d) : d \in ToolkitStageProps}
  /\ built = Undefined

\* Lines 370-411.
CallCreateToolkitStage ==
  /\ pc = "createToolkitStage"
  /\ built' = Some(createToolkitStage(descriptor[1]))
  /\ pc' = "returned"
  /\ UNCHANGED <<props, pipelineName, pipelineAccountEnvVariables, toolkitProject,
                 artifacts, stages, started, succeeded, failed, approver,
                 descriptor>>

FactoryNext == CallCreateToolkitStage

FactorySpec == FactoryInit /\ [][FactoryNext]_vars
(***************************************************************************)
(* Helpers for the properties.                                             *)
(***************************************************************************)
StageNames == [i \in 1..Len(stages) |-> stages[i].stageName]

CanonicalOrder(approval) ==
  IF approval
    THEN <<"Source", "Build", "Prepare", "Accounts", "Bootstrap", "Review",
           "Logging", "Organization", "SecurityAudit", "Deploy">>
    ELSE <<"Source", "Build", "Prepare", "Accounts", "Bootstrap",
           "Logging", "Organization", "SecurityAudit", "Deploy">>

IsPrefix(s, t) == Len(s) <= Len(t) /\ s = SubSeq(t, 1, Len(s))

\* Indices of the stages with the given name.
StagesNamed(name) == {i \in 1..Len(stages) : stages[i].stageName = name}

\* Positions of the actions with the given stage and action name.
Named(stageName, actionName) ==
  {pos \in Positions : /\ stages[pos[1]].stageName = stageName
                       /\ ActionAt(pos).actionName = actionName}

Writers(art) == {pos \in Positions : art \in ActionAt(pos).outputs}

Reads(pos) ==
  (IF ActionAt(pos).input = Undefined THEN {} ELSE {ActionAt(pos).input[1]})
    \cup ActionAt(pos).extraInputs

IsToolkitAction(pos) == ActionAt(pos).project = "ToolkitProject"

Returned == pc = "returned"

Env == built[1].environmentVariables

(***************************************************************************)
(* C1: the stages are emitted in the canonical order Source, Build,        *)
(* Prepare, Accounts, Bootstrap, [Review], Logging, Organization,          *)
(* SecurityAudit, Deploy for every configuration: while the constructor    *)
(* runs the stage names are a prefix of that order, when it has finished   *)
(* they are the whole order, and Review is among them iff                  *)
(* enableApprovalStage is true (nine names without Review otherwise).      *)
(***************************************************************************)
C1_CanonicalStageOrder ==
  /\ IsPrefix(StageNames, CanonicalOrder(props.enableApprovalStage))
  /\ pc = "done" =>
       /\ StageNames = CanonicalOrder(props.enableApprovalStage)
       /\ (StagesNamed("Review") # {}) <=> props.enableApprovalStage
       /\ ~props.enableApprovalStage =>
            StageNames = <<"Source", "Build", "Prepare", "Accounts", "Bootstrap",
                           "Logging", "Organization", "SecurityAudit", "Deploy">>

C1_Witness ==
  /\ pc = "done"
  /\ ~props.enableApprovalStage
  /\ Truthy(props.qualifier)
  /\ Truthy(props.managementAccountId)
  /\ Len(stages) = 9

(***************************************************************************)
(* C2: for a descriptor with verb 'deploy' and a stage tag the command     *)
(* string is "deploy --stage " followed by the tag; for 'bootstrap' and    *)
(* 'diff' it is the verb alone, whether or not a stage tag was supplied.   *)
(***************************************************************************)
C2_CommandString ==
  Returned =>
    LET d == descriptor[1] IN
      /\ d.command = "deploy" /\ d.stage # Undefined =>
           Env["CDK_OPTIONS"] = "deploy --stage " \o d.stage[1]
      /\ d.command \in {"bootstrap", "diff"} => Env["CDK_OPTIONS"] = d.command

C2_Witness ==
  /\ Returned
  /\ descriptor[1].command = "diff"
  /\ descriptor[1].stage = Some(StageLOGGING)
  /\ Env["CDK_OPTIONS"] = "diff"

(***************************************************************************)
(* C3: a descriptor with verb 'deploy' and an empty or absent stage tag    *)
(* never yields an action: createToolkitStage does not return for it.      *)
(***************************************************************************)
C3_DeployWithoutTagFails ==
  Returned =>
    ~(descriptor[1].command = "deploy" /\ ~Truthy(descriptor[1].stage))

(***************************************************************************)
(* C4: when exactly one of managementAccountId and                         *)
(* managementAccountRoleName is supplied the constructor does not          *)
(* complete: no pipeline description is produced.                          *)
(***************************************************************************)
ExactlyOneAccountField ==
  \/ Truthy(props.managementAccountId) /\ props.managementAccountRoleName = Undefined
  \/ props.managementAccountId = Undefined /\ Truthy(props.managementAccountRoleName)

C4_HalfPairFails == ExactlyOneAccountField => pc # "done"

(***************************************************************************)
(* C5: every artifact that an action reads is written by exactly one       *)
(* action, and that action is in a strictly earlier stage; no artifact is  *)
(* written twice and, in the finished pipeline, Source, Config and Build   *)
(* each have exactly one writer; every action built by createToolkitStage  *)
(* reads Build as input and Config as extra input, writes nothing and      *)
(* comes after the Build stage.                                            *)
(***************************************************************************)
C5_ArtifactsWrittenBeforeRead ==
  /\ \A pos \in Positions : \A art \in Reads(pos) :
       /\ Cardinality(Writers(art)) = 1
       /\ \A w \in Writers(art) : w[1] < pos[1]
  /\ \A art \in {"Source", "Config", "Build"} :
       /\ Cardinality(Writers(art)) <= 1
       /\ pc = "done" => Cardinality(Writers(art)) = 1
  /\ \A pos \in Positions : Reads(pos) \cup ActionAt(pos).outputs \subseteq artifacts
  /\ \A pos \in Positions : IsToolkitAction(pos) =>
       /\ ActionAt(pos).input = Some("Build")
       /\ ActionAt(pos).extraInputs = {"Config"}
       /\ ActionAt(pos).outputs = {}
       /\ \E b \in StagesNamed("Build") : b < pos[1]

C5_Witness ==
  /\ pc = "done"
  /\ props.enableApprovalStage
  /\ Cardinality({pos \in Positions : IsToolkitAction(pos)}) = 12
  /\ Cardinality({pos \in Positions : "Build" \in Reads(pos)}) = 12

(***************************************************************************)
(* C6: an action has started only if every action of every earlier stage   *)
(* and every action of its own stage with a lower run-order has succeeded. *)
(* In the Deploy stage Network_VPCs has not started before Network_Prepare,*)
(* Security and Operations have all succeeded, and Network_Associations    *)
(* has not started before Network_VPCs has succeeded.                      *)
(***************************************************************************)
C6_RunOrderRespected ==
  /\ \A pos \in started : \A q \in Positions :
       (q[1] < pos[1] \/ (q[1] = pos[1] /\ RunOrderOf(q) < RunOrderOf(pos)))
         => q \in succeeded
  /\ Named("Deploy", "Network_VPCs") \cap started # {} =>
       /\ Named("Deploy", "Network_Prepare") \cap succeeded # {}
       /\ Named("Deploy", "Security") \cap succeeded # {}
       /\ Named("Deploy", "Operations") \cap succeeded # {}
  /\ Named("Deploy", "Network_Associations") \cap started # {} =>
       Named("Deploy", "Network_VPCs") \cap succeeded # {}

\* The last wave of the Deploy stage has started.
C6_Witness ==
  /\ Named("Deploy", "Network_Associations") \cap started # {}
  /\ Named("Deploy", "Network_VPCs") \cap succeeded # {}
  /\ failed = {}

(***************************************************************************)
(* C7: with enableApprovalStage true no action of Logging, Organization,   *)
(* SecurityAudit or Deploy has started unless Diff has succeeded and an    *)
(* approver has approved Approve; Approve leaves the running state only by *)
(* an approver's decision, and while it is running and no approver acts    *)
(* nothing else in the pipeline starts.                                    *)
(***************************************************************************)
AfterReview == {"Logging", "Organization", "SecurityAudit", "Deploy"}

ApproveRunning == Named("Review", "Approve") \cap Running # {}

C7_Gate ==
  props.enableApprovalStage =>
    \A pos \in started : stages[pos[1]].stageName \in AfterReview =>
      /\ Named("Review", "Diff") \cap succeeded # {}
      /\ Named("Review", "Approve") \cap succeeded # {}
      /\ approver = "approved"

C7_ApprovalBlocks ==
  /\ []C7_Gate
  /\ [][ApproveRunning =>
          /\ (~ApproveRunning' => approver' # "none" /\ approver = "none")
          /\ started' = started
          /\ (approver' = approver => UNCHANGED <<succeeded, failed>>)]_vars

C7_Witness ==
  /\ props.enableApprovalStage
  /\ approver = "approved"
  /\ Named("Logging", "Logging") \cap started # {}

(***************************************************************************)
(* C8: the Deploy stage has exactly five actions: Network_Prepare,         *)
(* Security and Operations at run-order 1, Network_VPCs at run-order 2 and *)
(* Network_Associations at run-order 3, for every configuration.           *)
(***************************************************************************)
C8_DeployRunOrders ==
  /\ pc = "done" => Cardinality(StagesNamed("Deploy")) = 1
  /\ \A i \in StagesNamed("Deploy") :
       [a \in 1..Len(stages[i].actions) |->
          <<stages[i].actions[a].actionName, stages[i].actions[a].runOrder>>]
       = << <<"Network_Prepare", Some(1)>>, <<"Security", Some(1)>>,
            <<"Operations", Some(1)>>, <<"Network_VPCs", Some(2)>>,
            <<"Network_Associations", Some(3)>> >>

C8_Witness ==
  /\ pc = "done"
  /\ started = {}
  /\ StagesNamed("Deploy") # {}
  /\ \A i \in StagesNamed("Deploy") : Len(stages[i].actions) = 5

(***************************************************************************)
(* C9: with enableApprovalStage true the Review stage comes immediately    *)
(* after Bootstrap and immediately before Logging and holds exactly two    *)
(* actions: Diff, a toolkit action with command 'diff', at run-order 1 and *)
(* Approve, a manual approval, at run-order 2.                             *)
(***************************************************************************)
C9_ReviewStage ==
  /\ \A i \in StagesNamed("Review") :
       /\ props.enableApprovalStage
       /\ i > 1 /\ stages[i - 1].stageName = "Bootstrap"
       /\ i < Len(stages) => stages[i + 1].stageName = "Logging"
       /\ Len(stages[i].actions) = 2
       /\ stages[i].actions[1].actionName = "Diff"
       /\ stages[i].actions[1].kind = "CodeBuild"
       /\ stages[i].actions[1].project = "ToolkitProject"
       /\ stages[i].actions[1].environmentVariables["CDK_OPTIONS"] = "diff"
       /\ stages[i].actions[1].runOrder = Some(1)
       /\ stages[i].actions[2].actionName = "Approve"
       /\ stages[i].actions[2].kind = "ManualApproval"
       /\ stages[i].actions[2].runOrder = Some(2)
  /\ props.enableApprovalStage /\ pc = "done" =>
       \E i \in StagesNamed("Review") : i < Len(stages)

C9_Witness ==
  /\ pc = "done"
  /\ props.enableApprovalStage
  /\ StagesNamed("Review") = {6}
  /\ StagesNamed("Logging") = {7}

(***************************************************************************)
(* C10 as stated: every action built by createToolkitStage carries the     *)
(* command string under CDK_OPTIONS and carries the stage tag verbatim     *)
(* under ACCELERATOR_STAGE iff a stage tag was supplied, the empty string  *)
(* included.                                                               *)
(***************************************************************************)
C10_StageKeyIffSupplied ==
  Returned =>
    LET d == descriptor[1] IN
      /\ "CDK_OPTIONS" \in DOMAIN Env
      /\ ("ACCELERATOR_STAGE" \in DOMAIN Env) <=> (d.stage # Undefined)
      /\ "ACCELERATOR_STAGE" \in DOMAIN Env => Env["ACCELERATOR_STAGE"] = d.stage[1]

(***************************************************************************)
(* C10 amended: every action built by createToolkitStage carries the       *)
(* command string under CDK_OPTIONS and has no keys other than CDK_OPTIONS *)
(* and ACCELERATOR_STAGE; it carries the stage tag verbatim under          *)
(* ACCELERATOR_STAGE iff a non-empty stage tag was supplied; across the    *)
(* descriptors of the constructor ACCELERATOR_STAGE is set on every        *)
(* 'deploy' action and on no 'bootstrap' or 'diff' action.                 *)
(***************************************************************************)
C10_StageKeyIffNonEmpty ==
  /\ Returned =>
       LET d == descriptor[1] IN
         /\ "CDK_OPTIONS" \in DOMAIN Env
         /\ DOMAIN Env \subseteq {"CDK_OPTIONS", "ACCELERATOR_STAGE"}
         /\ d.command = "deploy" /\ d.stage # Undefined =>
              Env["CDK_OPTIONS"] = "deploy --stage " \o d.stage[1]
         /\ d.command \in {"bootstrap", "diff"} => Env["CDK_OPTIONS"] = d.command
         /\ ("ACCELERATOR_STAGE" \in DOMAIN Env) <=>
              (d.stage # Undefined /\ d.stage # Some(""))
         /\ "ACCELERATOR_STAGE" \in DOMAIN Env => Env["ACCELERATOR_STAGE"] = d.stage[1]
  /\ \A i \in 1..Len(StaticDescriptors) :
       LET d == StaticDescriptors[i]
           e == createToolkitStage(d).environmentVariables
       IN  /\ d.command \in {"deploy", "bootstrap", "diff"}
           /\ ("ACCELERATOR_STAGE" \in DOMAIN e) <=> (d.command = "deploy")
           /\ d.command = "deploy" => e["ACCELERATOR_STAGE"] = d.stage[1]

C10_Witness ==
  /\ Returned
  /\ descriptor[1].stage = Some("")
  /\ DOMAIN Env = {"CDK_OPTIONS"}
====
